---- MODULE Spec2Model ----
(***************************************************************************)
(* Model of talpid-openvpn/src/process/openvpn.rs:                         *)
(*   - OpenVpnCommand: the builder of the OpenVPN command line;            *)
(*   - OpenVpnProcHandle: the handle of a spawned OpenVPN process and the  *)
(*     tokio task that supervises it.                                      *)
(* Option<T> is modelled as a sequence: None is <<>> and Some(v) is <<v>>. *)
(***************************************************************************)
EXTENDS Integers, Sequences, FiniteSets, TLC

VARIABLES
    platform,   \* the build target: selects the cfg(...) items
    cmd,        \* the OpenVpnCommand
    out,        \* what the last build() on the current cmd did
    handle,     \* the OpenVpnProcHandle
    chan,       \* the oneshot channel (stop_tx, stop_rx)
    task,       \* the supervising task spawned by OpenVpnProcHandle::new
    child,      \* the OpenVPN child process, as the OS sees it
    caller,     \* the owner of the handle
    events      \* what the task did to the child, in order

cmdVars == <<cmd, out>>
procVars == <<handle, chan, task, child, caller, events>>
vars == <<platform, cmd, out, handle, chan, task, child, caller, events>>

----------------------------------------------------------------------------
(* Bounds of the model *)

\* longest plugin argument list
MaxPluginArgs == 2
\* how many fields of an OpenVpnCommand differ from OpenVpnCommand::new()
MaxFieldsSet == 3
\* largest shutdown timeout, in timer ticks
MaxTimeout == 2
\* how many times the owner calls kill()
MaxKillCalls == 2
\* how many times the owner calls wait()
MaxWaitCalls == 2

----------------------------------------------------------------------------
(* Option *)

None == <<>>
Some(v) == <<v>>
IsSome(o) == o # <<>>
Unwrap(o) == o[1]

----------------------------------------------------------------------------
(* Conversions to String *)

Digit(d) == CASE d = 0 -> "0" [] d = 1 -> "1" [] d = 2 -> "2" [] d = 3 -> "3"
              [] d = 4 -> "4" [] d = 5 -> "5" [] d = 6 -> "6" [] d = 7 -> "7"
              [] d = 8 -> "8" [] d = 9 -> "9"

\* u16::to_string, u32::to_string: decimal, no sign, no padding
RECURSIVE to_string(_)
to_string(n) == IF n < 10 THEN Digit(n) ELSE to_string(n \div 10) \o Digit(n % 10)

\* IpAddr::to_string for an Ipv4Addr given as its four octets
ip_to_string(ip) ==
    to_string(ip[1]) \o "." \o to_string(ip[2]) \o "." \o to_string(ip[3])
        \o "." \o to_string(ip[4])

\* in a path, InvalidByte stands for a byte that is no part of valid UTF-8
\* (0xFF), and in a String Replacement stands for U+FFFD
InvalidByte == "^"
Replacement == "?"

\* OsStr::to_string_lossy: every invalid byte becomes U+FFFD
RECURSIVE to_string_lossy(_)
to_string_lossy(s) ==
    IF s = "" THEN ""
    ELSE (IF SubSeq(s, 1, 1) = InvalidByte THEN Replacement ELSE SubSeq(s, 1, 1))
         \o to_string_lossy(SubSeq(s, 2, Len(s)))

\* [&str]::join(sep)
RECURSIVE join(_, _)
join(strs, sep) ==
    IF strs = <<>> THEN ""
    ELSE IF Len(strs) = 1 THEN strs[1]
    ELSE strs[1] \o sep \o join(Tail(strs), sep)

\* Vec::concat of a list of token lists
RECURSIVE Flatten(_)
Flatten(lists) == IF lists = <<>> THEN <<>> ELSE lists[1] \o Flatten(Tail(lists))

----------------------------------------------------------------------------
(* Static tables *)

Platforms == {"linux", "windows", "macos"}

BASE_ARGUMENTS(p) ==
    <<  <<"--client">>,
        <<"--tls-client">>,
        <<"--nobind">>,
        <<"--mute-replay-warnings">>  >>
    \o (IF p # "windows" THEN << <<"--dev", "tun">> >> ELSE << >>)
    \o (IF p = "windows" THEN << <<"--dev-type", "tun">> >> ELSE << >>)
    \o <<  <<"--ping", "4">>,
           <<"--ping-exit", "25">>,
           <<"--connect-timeout", "30">>,
           <<"--connect-retry", "0", "0">>,
           <<"--connect-retry-max", "1">>,
           <<"--remote-cert-tls", "server">>,
           <<"--rcvbuf", "1048576">>,
           <<"--sndbuf", "1048576">>,
           <<"--fast-io">>,
           <<"--data-ciphers-fallback", "AES-256-GCM">>,
           <<"--tls-version-min", "1.3">>,
           <<"--verb", "3">>  >>
    \o (IF p = "windows"
        THEN << <<"--route-gateway", "dhcp", "--route", "0.0.0.0", "0.0.0.0",
                  "vpn_gateway", "1">> >>
        ELSE << >>)
    \o (IF p = "linux" THEN << <<"--route-noexec">> >> ELSE << >>)
    \o (IF p = "windows" THEN << <<"--ip-win32", "ipapi">> >> ELSE << >>)
    \o (IF p = "windows" THEN << <<"--windows-driver", "wintun">> >> ELSE << >>)

ALLOWED_TLS1_3_CIPHERS == <<"TLS_AES_256_GCM_SHA384", "TLS_CHACHA20_POLY1305_SHA256">>

----------------------------------------------------------------------------
(* The values the owner of an OpenVpnCommand passes to its setters *)

ConfigPaths == {"/etc/openvpn/mullvad.conf"}
UserPassPaths == {"/tmp/user-pass"}
ProxyAuthPaths == {"/tmp/proxy-auth", "/tmp/proxy^auth"}
CaPaths == {"ca.crt"}
CrlPaths == {"crl.pem"}
LogPaths == {"openvpn.log"}
PluginPaths == {"./a/path"}
PluginArgStrings == {"123", "c de"}
TunnelAliases == {"Mullvad"}
MssfixValues == {1300}
FwmarkValues == {1836018789}
ProxyPorts == {0, 54321}

TransportProtocols == {"Udp", "Tcp"}
SocketAddrs == {[ip |-> <<127, 0, 0, 1>>, port |-> 3333],
                [ip |-> <<10, 0, 0, 1>>, port |-> 443]}
Endpoints == {[address |-> a, protocol |-> p] : a \in SocketAddrs, p \in TransportProtocols}

RECURSIVE SeqsUpTo(_, _)
SeqsUpTo(S, n) ==
    IF n = 0 THEN {<<>>}
    ELSE LET shorter == SeqsUpTo(S, n - 1)
         IN  shorter \cup {Append(s, x) : s \in shorter, x \in S}

PluginArgLists == SeqsUpTo(PluginArgStrings, MaxPluginArgs)

CustomProxies ==
    {[variant |-> "Socks5Local", local_port |-> 1080,
      remote_endpoint |-> [address |-> [ip |-> <<10, 0, 0, 1>>, port |-> 443],
                           protocol |-> "Tcp"]]}
    \cup {[variant |-> "Socks5Remote", endpoint |-> [ip |-> <<192, 168, 1, 5>>, port |-> 1081],
           auth |-> a] : a \in {None, Some([username |-> "u", password |-> "p"])}}
    \cup {[variant |-> "Shadowsocks", endpoint |-> [ip |-> <<185, 65, 135, 1>>, port |-> 443]]}

----------------------------------------------------------------------------
(* OpenVpnCommand *)

\* OpenVpnCommand::new
new ==
    [ config |-> None,
      remote |-> None,
      user_pass_path |-> None,
      proxy_auth_path |-> None,
      ca |-> None,
      crl |-> None,
      plugin |-> None,
      log |-> None,
      tunnel_options |-> [mssfix |-> None],
      proxy_settings |-> None,
      tunnel_alias |-> None,
      enable_ipv6 |-> TRUE,
      proxy_port |-> None,
      fwmark |-> None ]

base_arguments(p) == Flatten(BASE_ARGUMENTS(p))

tls_cipher_arguments == <<"--tls-ciphersuites", join(ALLOWED_TLS1_3_CIPHERS, ":")>>

\* remote_arguments as it would be with the address and the port swapped
remote_arguments_port_first(c) ==
    IF IsSome(c.remote)
    THEN LET endpoint == Unwrap(c.remote)
         IN  <<"--proto",
               IF endpoint.protocol = "Udp" THEN "udp" ELSE "tcp-client",
               "--remote",
               to_string(endpoint.address.port),
               ip_to_string(endpoint.address.ip)>>
    ELSE <<>>

remote_arguments(c) ==
    IF IsSome(c.remote)
    THEN LET endpoint == Unwrap(c.remote)
         IN  <<"--proto",
               IF endpoint.protocol = "Udp" THEN "udp" ELSE "tcp-client",
               "--remote",
               ip_to_string(endpoint.address.ip),
               to_string(endpoint.address.port)>>
    ELSE <<>>

authentication_arguments(c) ==
    IF IsSome(c.user_pass_path)
    THEN <<"--auth-user-pass", Unwrap(c.user_pass_path)>>
    ELSE <<>>

\* proxy_arguments panics: the Shadowsocks arm without a proxy_port
proxy_arguments_panics(c) ==
    /\ IsSome(c.proxy_settings)
    /\ Unwrap(c.proxy_settings).variant = "Shadowsocks"
    /\ ~IsSome(c.proxy_port)

\* the arms of the match in proxy_arguments
\* the Socks5Local arm as it would be with the route to the local listener
socks5_local_arguments_routes_listener(c, local_proxy) ==
    <<"--socks-proxy", "127.0.0.1", to_string(local_proxy.local_port),
      "--route", "127.0.0.1", "255.255.255.255", "net_gateway">>

\* the Socks5Local arm as it would be if a registered proxy_port were used
socks5_local_arguments_dynamic_port(c, local_proxy) ==
    <<"--socks-proxy", "127.0.0.1",
      IF IsSome(c.proxy_port) THEN to_string(Unwrap(c.proxy_port))
                              ELSE to_string(local_proxy.local_port),
      "--route", ip_to_string(local_proxy.remote_endpoint.address.ip),
      "255.255.255.255", "net_gateway">>

socks5_local_arguments(c, local_proxy) ==
    <<"--socks-proxy", "127.0.0.1", to_string(local_proxy.local_port),
      "--route", ip_to_string(local_proxy.remote_endpoint.address.ip),
      "255.255.255.255", "net_gateway">>

socks5_remote_arguments(c, remote_proxy) ==
    <<"--socks-proxy", ip_to_string(remote_proxy.endpoint.ip),
      to_string(remote_proxy.endpoint.port)>>
    \o (IF IsSome(remote_proxy.auth) /\ IsSome(c.proxy_auth_path)
        THEN <<to_string_lossy(Unwrap(c.proxy_auth_path))>>
        ELSE <<>>)
    \o <<"--route", ip_to_string(remote_proxy.endpoint.ip),
         "255.255.255.255", "net_gateway">>

shadowsocks_arguments(c, ss) ==
    <<"--socks-proxy", "127.0.0.1">>
    \o (IF IsSome(c.proxy_port)
        THEN <<to_string(Unwrap(c.proxy_port))>>
             \o <<"--route", ip_to_string(ss.endpoint.ip),
                  "255.255.255.255", "net_gateway">>
        ELSE <<>>)

\* the tokens proxy_arguments has pushed when it returns (or when it panics)
proxy_arguments(c) ==
    IF ~IsSome(c.proxy_settings) THEN <<>>
    ELSE LET proxy == Unwrap(c.proxy_settings) IN
      CASE proxy.variant = "Socks5Local" -> socks5_local_arguments(c, proxy)
        [] proxy.variant = "Socks5Remote" -> socks5_remote_arguments(c, proxy)
        [] proxy.variant = "Shadowsocks" -> shadowsocks_arguments(c, proxy)

\* the sections of get_arguments that have no function of their own
config_arguments(c) ==
    IF IsSome(c.config) THEN <<"--config", Unwrap(c.config)>> ELSE <<>>

ca_arguments(c) ==
    IF IsSome(c.ca) THEN <<"--ca", Unwrap(c.ca)>> ELSE <<>>

crl_arguments(c) ==
    IF IsSome(c.crl) THEN <<"--crl-verify", Unwrap(c.crl)>> ELSE <<>>

\* the plugin section as it would be with the arguments joined into one token
plugin_arguments_joined(c) ==
    IF IsSome(c.plugin)
    THEN <<"--plugin", Unwrap(c.plugin).path, join(Unwrap(c.plugin).args, " ")>>
    ELSE <<>>

plugin_arguments(c) ==
    IF IsSome(c.plugin)
    THEN <<"--plugin", Unwrap(c.plugin).path>> \o Unwrap(c.plugin).args
    ELSE <<>>

log_arguments(c) ==
    IF IsSome(c.log) THEN <<"--log", Unwrap(c.log)>> ELSE <<>>

mssfix_arguments(c) ==
    IF IsSome(c.tunnel_options.mssfix)
    THEN <<"--mssfix", to_string(Unwrap(c.tunnel_options.mssfix))>>
    ELSE <<>>

\* the IPv6 section as it would be with the second pull-filter left out
ipv6_arguments_one_filter(c) ==
    IF ~c.enable_ipv6
    THEN <<"--pull-filter", "ignore", "route-ipv6">>
    ELSE <<>>

ipv6_arguments(c) ==
    IF ~c.enable_ipv6
    THEN <<"--pull-filter", "ignore", "route-ipv6",
           "--pull-filter", "ignore", "ifconfig-ipv6">>
    ELSE <<>>

tunnel_alias_arguments(c) ==
    IF IsSome(c.tunnel_alias) THEN <<"--dev-node", Unwrap(c.tunnel_alias)>> ELSE <<>>

fwmark_arguments(p, c) ==
    IF p = "linux" /\ IsSome(c.fwmark)
    THEN <<"--mark", to_string(Unwrap(c.fwmark))>>
    ELSE <<>>

\* get_arguments as it would be with the log section before the plugin section
get_arguments_log_first(p, c) ==
    base_arguments(p)
    \o config_arguments(c)
    \o remote_arguments(c)
    \o authentication_arguments(c)
    \o ca_arguments(c)
    \o crl_arguments(c)
    \o log_arguments(c)
    \o plugin_arguments(c)
    \o mssfix_arguments(c)
    \o ipv6_arguments(c)
    \o tunnel_alias_arguments(c)
    \o tls_cipher_arguments
    \o proxy_arguments(c)
    \o fwmark_arguments(p, c)

\* OpenVpnCommand::get_arguments on build target p
get_arguments(p, c) ==
    base_arguments(p)
    \o config_arguments(c)
    \o remote_arguments(c)
    \o authentication_arguments(c)
    \o ca_arguments(c)
    \o crl_arguments(c)
    \o plugin_arguments(c)
    \o log_arguments(c)
    \o mssfix_arguments(c)
    \o ipv6_arguments(c)
    \o tunnel_alias_arguments(c)
    \o tls_cipher_arguments
    \o proxy_arguments(c)
    \o fwmark_arguments(p, c)

\* what a call of OpenVpnCommand::build does: it returns a command holding the
\* arguments, or unwinds with the panic of proxy_arguments
build(p, c) ==
    IF proxy_arguments_panics(c)
    THEN [kind |-> "panic", args |-> <<>>]
    ELSE [kind |-> "command", args |-> get_arguments(p, c)]

NotBuilt == [kind |-> "none", args |-> <<>>]

\* the number of fields of c that differ from OpenVpnCommand::new()
FieldsSet(c) == Cardinality({f \in DOMAIN new : c[f] # new[f]})

\* the end of every setter: it returns the builder; the value a previous
\* build() returned says nothing about the changed command
Chained ==
    /\ FieldsSet(cmd') <= MaxFieldsSet
    /\ out' = NotBuilt
    /\ UNCHANGED <<platform, procVars>>

fwmark ==
    /\ platform = "linux"
    /\ \E m \in {None} \cup {Some(v) : v \in FwmarkValues} :
           cmd' = [cmd EXCEPT !.fwmark = m]
    /\ Chained

config ==
    /\ \E path \in ConfigPaths : cmd' = [cmd EXCEPT !.config = Some(path)]
    /\ Chained

remote ==
    /\ \E endpoint \in Endpoints : cmd' = [cmd EXCEPT !.remote = Some(endpoint)]
    /\ Chained

user_pass ==
    /\ \E path \in UserPassPaths : cmd' = [cmd EXCEPT !.user_pass_path = Some(path)]
    /\ Chained

proxy_auth ==
    /\ \E path \in ProxyAuthPaths : cmd' = [cmd EXCEPT !.proxy_auth_path = Some(path)]
    /\ Chained

ca ==
    /\ \E path \in CaPaths : cmd' = [cmd EXCEPT !.ca = Some(path)]
    /\ Chained

crl ==
    /\ \E path \in CrlPaths : cmd' = [cmd EXCEPT !.crl = Some(path)]
    /\ Chained

plugin ==
    /\ \E path \in PluginPaths, args \in PluginArgLists :
           cmd' = [cmd EXCEPT !.plugin = Some([path |-> path, args |-> args])]
    /\ Chained

log ==
    /\ \E path \in LogPaths : cmd' = [cmd EXCEPT !.log = Some(path)]
    /\ Chained

tunnel_options ==
    /\ \E m \in {None} \cup {Some(v) : v \in MssfixValues} :
           cmd' = [cmd EXCEPT !.tunnel_options = [mssfix |-> m]]
    /\ Chained

tunnel_alias ==
    /\ \E a \in {None} \cup {Some(v) : v \in TunnelAliases} :
           cmd' = [cmd EXCEPT !.tunnel_alias = a]
    /\ Chained

enable_ipv6 ==
    /\ \E b \in BOOLEAN : cmd' = [cmd EXCEPT !.enable_ipv6 = b]
    /\ Chained

proxy_port ==
    /\ \E port \in ProxyPorts : cmd' = [cmd EXCEPT !.proxy_port = Some(port)]
    /\ Chained

proxy_settings ==
    /\ \E proxy \in CustomProxies : cmd' = [cmd EXCEPT !.proxy_settings = Some(proxy)]
    /\ Chained

\* OpenVpnCommand::build (&self: the command is left as it is)
Build ==
    /\ out' = build(platform, cmd)
    /\ UNCHANGED <<platform, cmd, procVars>>

----------------------------------------------------------------------------
(* OpenVpnProcHandle and its supervising task *)

Timeouts == 0..MaxTimeout

\* the exit statuses of a child that exits by itself, and of one that was killed
OwnStatuses == {"exit(0)", "exit(1)"}
Killed == "signal(9)"

\* io::Result<ExitStatus>
Ok(status) == [ok |-> TRUE, v |-> status]
Err(e) == [ok |-> FALSE, v |-> e]

InitCmd == /\ cmd = new
           /\ out = NotBuilt

InitProc ==
    /\ handle = [state |-> "none", stop_tx |-> "None"]
    /\ chan = [data |-> None, tx |-> "none", rx |-> "none", sent |-> <<>>]
    /\ task = [pc |-> "none", signal |-> "none", timeout |-> None, elapsed |-> 0,
               stage |-> "none", output |-> None]
    /\ child = [state |-> "none", status |-> None, reaped |-> FALSE, stdin |-> "none",
                unsignalled |-> FALSE]
    /\ caller = [pc |-> "idle", spawn |-> None, kills |-> <<>>, waits |-> <<>>]
    /\ events = <<>>

Init == /\ platform \in Platforms
        /\ InitCmd
        /\ InitProc

\* OpenVpnProcHandle::new: spawn() fails and `?` returns the error, or the
\* child runs with a piped stdin, the channel exists and the task is spawned
\* and parked at its select!
\* new() as it would be if the channel and the task were set up before spawn()
NewFails_after_setup ==
    /\ handle.state = "none"
    /\ caller.spawn = None
    /\ caller' = [caller EXCEPT !.spawn = Some(Err("spawn"))]
    /\ chan' = [data |-> None, tx |-> "gone", rx |-> "held", sent |-> <<>>]
    /\ task' = [task EXCEPT !.pc = "select", !.stage = "running"]
    /\ UNCHANGED <<platform, cmdVars, handle, child, events>>

NewFails ==
    /\ handle.state = "none"
    /\ caller.spawn = None
    /\ caller' = [caller EXCEPT !.spawn = Some(Err("spawn"))]
    /\ UNCHANGED <<platform, cmdVars, handle, chan, task, child, events>>

NewSpawns ==
    /\ handle.state = "none"
    /\ caller.spawn = None
    /\ child' = [state |-> "running", status |-> None, reaped |-> FALSE, stdin |-> "open",
                 unsignalled |-> FALSE]
    /\ chan' = [data |-> None, tx |-> "held", rx |-> "held", sent |-> <<>>]
    /\ task' = [pc |-> "select", signal |-> "none", timeout |-> None, elapsed |-> 0,
                stage |-> "running", output |-> None]
    /\ handle' = [state |-> "live", stop_tx |-> "Some"]
    /\ caller' = [caller EXCEPT !.spawn = Some(Ok("handle"))]
    /\ UNCHANGED <<platform, cmdVars, events>>

\* oneshot::Sender::send: the value is stored unless the receiver is gone
send(c, t) ==
    [c EXCEPT !.data = IF c.rx = "held" THEN Some(t) ELSE c.data,
              !.tx = "gone",
              !.sent = Append(c.sent, t)]

\* kill() as it would be if stop_tx were used without being taken
kill_keeps_stop_tx(t) ==
    /\ handle.state = "live"
    /\ caller.pc = "idle"
    /\ Len(caller.kills) < MaxKillCalls
    /\ caller' = [caller EXCEPT !.kills = Append(@, [timeout |-> t,
                                    running |-> child.state = "running"])]
    /\ chan' = send(chan, t)
    /\ UNCHANGED <<platform, cmdVars, handle, task, child, events>>

\* OpenVpnProcHandle::kill
kill(t) ==
    /\ handle.state = "live"
    /\ caller.pc = "idle"
    /\ Len(caller.kills) < MaxKillCalls
    /\ caller' = [caller EXCEPT !.kills = Append(@, [timeout |-> t,
                                    running |-> child.state = "running"])]
    /\ IF handle.stop_tx = "Some"
       THEN /\ handle' = [handle EXCEPT !.stop_tx = "None"]
            /\ chan' = send(chan, t)
       ELSE UNCHANGED <<handle, chan>>
    /\ UNCHANGED <<platform, cmdVars, task, child, events>>

\* OpenVpnProcHandle::wait is called: the caller awaits the JoinHandle
WaitCall ==
    /\ handle.state = "live"
    /\ caller.pc = "idle"
    /\ Len(caller.waits) < MaxWaitCalls
    /\ caller' = [caller EXCEPT !.pc = "waiting"]
    /\ UNCHANGED <<platform, cmdVars, handle, chan, task, child, events>>

\* the JoinHandle is polled with the task finished: the first poll moves the
\* output out of the task, a poll after that finds no output and panics
JoinHandlePoll ==
    /\ caller.pc = "waiting"
    /\ task.stage \in {"finished", "consumed"}
    /\ IF task.stage = "finished"
       THEN /\ caller' = [caller EXCEPT !.pc = "idle",
                                        !.waits = Append(@, [kind |-> "returned",
                                                             result |-> Unwrap(task.output)])]
            /\ task' = [task EXCEPT !.stage = "consumed"]
       ELSE /\ caller' = [caller EXCEPT !.pc = "panicked",
                                        !.waits = Append(@, [kind |-> "panic",
                                                             result |-> Err("panic")])]
            /\ UNCHANGED task
    /\ UNCHANGED <<platform, cmdVars, handle, chan, child, events>>

\* the future wait() returned is dropped before it completed
WaitDropped ==
    /\ caller.pc = "waiting"
    /\ task.stage = "running"
    /\ caller' = [caller EXCEPT !.pc = "idle"]
    /\ UNCHANGED <<platform, cmdVars, handle, chan, task, child, events>>

\* the OpenVpnProcHandle is dropped: a stop_tx still held is dropped with it,
\* the task is detached and runs on
DropHandle ==
    /\ handle.state = "live"
    /\ caller.pc = "idle"
    /\ handle' = [state |-> "dropped", stop_tx |-> "None"]
    /\ chan' = IF handle.stop_tx = "Some" THEN [chan EXCEPT !.tx = "gone"] ELSE chan
    /\ UNCHANGED <<platform, cmdVars, task, child, caller, events>>

\* the child exits by itself; unsignalled records that by then no timeout was
\* sent and stop_tx was not dropped
ChildExits ==
    /\ child.state = "running"
    /\ \E s \in OwnStatuses :
         child' = [child EXCEPT !.state = "exited", !.status = Some(s),
                                !.unsignalled = (chan.tx = "held")]
    /\ UNCHANGED <<platform, cmdVars, handle, chan, task, caller, events>>

\* proc_handle.wait() completes: the child has exited; the OS reports the
\* status, which tokio::process::Child then keeps, or an error
WaitOutcomes == IF child.reaped THEN {Ok(Unwrap(child.status))}
                ELSE {Ok(Unwrap(child.status)), Err("wait")}

Reaped(r) == [child EXCEPT !.reaped = @ \/ r.ok]

\* the async block returns r: the task's output is stored for the JoinHandle
\* and its locals (stdin, stop_rx, proc_handle) are dropped
Return(t, r) == [t EXCEPT !.pc = "done", !.stage = "finished", !.output = Some(r)]

Closed(c) == [c EXCEPT !.stdin = "closed"]

\* the natural-exit branch as it would be if it killed the child to make sure
SelectExited_kills ==
    /\ task.pc = "select"
    /\ child.state = "exited"
    /\ \E r \in WaitOutcomes :
         /\ task' = Return(task, r)
         /\ child' = Closed(Reaped(r))
    /\ chan' = [chan EXCEPT !.rx = "gone"]
    /\ events' = events \o <<"exited", "kill">>
    /\ UNCHANGED <<platform, cmdVars, handle, caller>>

\* select!: `result = proc_handle.wait()` completes first
SelectExited ==
    /\ task.pc = "select"
    /\ child.state = "exited"
    /\ \E r \in WaitOutcomes :
         /\ task' = Return(task, r)
         /\ child' = Closed(Reaped(r))
    /\ chan' = [chan EXCEPT !.rx = "gone"]
    /\ events' = Append(events, "exited")
    /\ UNCHANGED <<platform, cmdVars, handle, caller>>

\* the stop_rx branch as it would be if it were entered with stop_rx pending
SelectStop_unprompted ==
    /\ task.pc = "select"
    /\ IF IsSome(chan.data)
       THEN task' = [task EXCEPT !.pc = "timeout", !.signal = "Ok",
                                 !.timeout = chan.data]
       ELSE task' = [task EXCEPT !.pc = "kill", !.signal = "Canceled"]
    /\ chan' = [chan EXCEPT !.data = None]
    /\ child' = Closed(child)
    /\ events' = Append(events, "close_stdin")
    /\ UNCHANGED <<platform, cmdVars, handle, caller>>

\* the stop_rx branch as it would be without drop(stdin)
SelectStop_keeps_stdin ==
    /\ task.pc = "select"
    /\ IsSome(chan.data) \/ chan.tx = "gone"
    /\ IF IsSome(chan.data)
       THEN task' = [task EXCEPT !.pc = "timeout", !.signal = "Ok",
                                 !.timeout = chan.data]
       ELSE task' = [task EXCEPT !.pc = "kill", !.signal = "Canceled"]
    /\ chan' = [chan EXCEPT !.data = None]
    /\ UNCHANGED <<platform, cmdVars, handle, child, caller, events>>

\* select!: `timeout = &mut stop_rx` completes first, with Ok(timeout) or with
\* Err(Canceled); drop(stdin) follows without a suspension point
SelectStop ==
    /\ task.pc = "select"
    /\ IsSome(chan.data) \/ chan.tx = "gone"
    /\ IF IsSome(chan.data)
       THEN task' = [task EXCEPT !.pc = "timeout", !.signal = "Ok",
                                 !.timeout = chan.data]
       ELSE task' = [task EXCEPT !.pc = "kill", !.signal = "Canceled"]
    /\ chan' = [chan EXCEPT !.data = None]
    /\ child' = Closed(child)
    /\ events' = Append(events, "close_stdin")
    /\ UNCHANGED <<platform, cmdVars, handle, caller>>

\* time passes while tokio::time::timeout(timeout, proc_handle.wait()) is pending
Tick ==
    /\ task.pc = "timeout"
    /\ task.elapsed < Unwrap(task.timeout)
    /\ task' = [task EXCEPT !.elapsed = @ + 1]
    /\ UNCHANGED <<platform, cmdVars, handle, chan, child, caller, events>>

\* tokio::time::timeout: the inner wait completed, Ok(_)
TimeoutOk ==
    /\ task.pc = "timeout"
    /\ child.state = "exited"
    /\ \E r \in WaitOutcomes : child' = Reaped(r)
    /\ task' = [task EXCEPT !.pc = "final_wait"]
    /\ events' = Append(events, "waited")
    /\ UNCHANGED <<platform, cmdVars, handle, chan, caller>>

\* the bounded wait as it would be if the deadline were never acted on
TimeoutElapsed_never ==
    /\ task.pc = "timeout"
    /\ child.state = "running"
    /\ task.elapsed > Unwrap(task.timeout)
    /\ task' = [task EXCEPT !.pc = "kill"]
    /\ events' = Append(events, "elapsed")
    /\ UNCHANGED <<platform, cmdVars, handle, chan, child, caller>>

\* tokio::time::timeout: the deadline passed with the inner wait pending, Err(_)
TimeoutElapsed ==
    /\ task.pc = "timeout"
    /\ child.state = "running"
    /\ task.elapsed >= Unwrap(task.timeout)
    /\ task' = [task EXCEPT !.pc = "kill"]
    /\ events' = Append(events, "elapsed")
    /\ UNCHANGED <<platform, cmdVars, handle, chan, child, caller>>

\* the error of kill() as it would be with `?` in both branches
KillError_always_returned(e) ==
    /\ task' = Return(task, Err(e))
    /\ chan' = [chan EXCEPT !.rx = "gone"]

\* the error of kill() as it would be if the kill were tried again
KillError_retried(e) ==
    /\ task' = [task EXCEPT !.pc = "kill"]
    /\ UNCHANGED chan

\* the error of proc_handle.kill().await: after a timeout `?` returns it from
\* the task, after Err(Canceled) `let _ =` drops it
KillError(e) ==
    IF task.signal = "Ok"
    THEN /\ task' = Return(task, Err(e))
         /\ chan' = [chan EXCEPT !.rx = "gone"]
    ELSE /\ task' = [task EXCEPT !.pc = "final_wait"]
         /\ UNCHANGED chan

\* proc_handle.kill(): the kill signal is sent, or the OS refuses
KillSent ==
    /\ task.pc = "kill"
    /\ task' = [task EXCEPT !.pc = "kill_wait"]
    /\ child' = IF child.state = "running"
                THEN [child EXCEPT !.state = "exited", !.status = Some(Killed)]
                ELSE child
    /\ events' = Append(events, "kill")
    /\ UNCHANGED <<platform, cmdVars, handle, chan, caller>>

KillFails ==
    /\ task.pc = "kill"
    /\ KillError("kill")
    /\ events' = events \o <<"kill", "kill_failed">>
    /\ UNCHANGED <<platform, cmdVars, handle, child, caller>>

\* proc_handle.kill() goes on to wait for the killed child
KillWaits ==
    /\ task.pc = "kill_wait"
    /\ child.state = "exited"
    /\ \E r \in WaitOutcomes :
         /\ child' = Reaped(r)
         /\ IF r.ok
            THEN /\ task' = [task EXCEPT !.pc = "final_wait"]
                 /\ UNCHANGED <<chan, events>>
            ELSE /\ KillError(r.v)
                 /\ events' = Append(events, "kill_failed")
    /\ UNCHANGED <<platform, cmdVars, handle, caller>>

\* the last expression of the stop_rx branch: proc_handle.wait().await
FinalWait ==
    /\ task.pc = "final_wait"
    /\ child.state = "exited"
    /\ \E r \in WaitOutcomes :
         /\ task' = Return(task, r)
         /\ child' = Reaped(r)
    /\ chan' = [chan EXCEPT !.rx = "gone"]
    /\ events' = Append(events, "final_wait")
    /\ UNCHANGED <<platform, cmdVars, handle, caller>>

TaskNext ==
    \/ SelectExited
    \/ SelectStop
    \/ Tick
    \/ TimeoutOk
    \/ TimeoutElapsed
    \/ KillSent
    \/ KillFails
    \/ KillWaits
    \/ FinalWait

NextProc ==
    \/ NewFails
    \/ NewSpawns
    \/ \E t \in Timeouts : kill(t)
    \/ WaitCall
    \/ JoinHandlePoll
    \/ WaitDropped
    \/ DropHandle
    \/ ChildExits
    \/ TaskNext

\* the process handle, its task and the child
Spec == Init /\ [][NextProc]_vars

\* the tokio runtime runs a task that can make progress, and its timer fires
FairSpec == Spec /\ WF_vars(TaskNext)

NextCmd ==
    \/ fwmark
    \/ config
    \/ remote
    \/ user_pass
    \/ proxy_auth
    \/ ca
    \/ crl
    \/ plugin
    \/ log
    \/ tunnel_options
    \/ tunnel_alias
    \/ enable_ipv6
    \/ proxy_port
    \/ proxy_settings
    \/ Build

\* the builder: any setters, then build()
SpecCmd == Init /\ [][NextCmd]_vars

----------------------------------------------------------------------------
(* Helpers of the properties *)

Range(s) == {s[i] : i \in 1..Len(s)}

\* the indices at which e occurs in s
Indices(s, e) == {i \in 1..Len(s) : s[i] = e}

\* seq occurs in s as a contiguous block starting at index i
OccursAt(s, seq, i) ==
    /\ i >= 1
    /\ i + Len(seq) - 1 <= Len(s)
    /\ \A j \in 1..Len(seq) : s[i + j - 1] = seq[j]

Occurs(s, seq) == \E i \in 1..Len(s) : OccursAt(s, seq, i)

\* s with block inserted after its first k elements
Inserted(s, block, k) == SubSeq(s, 1, k) \o block \o SubSeq(s, k + 1, Len(s))

TaskFinished == task.stage \in {"finished", "consumed"}

\* the first kill() was called while the child was still running
KilledWhileRunning == caller.kills # <<>> /\ caller.kills[1].running

----------------------------------------------------------------------------
(* C1 *)

\* C1: wait() is safe to call repeatedly: once the task has completed, every
\* call of wait() returns, and returns the same result as the first call.
C1_WaitRepeatable ==
    \A i \in 1..Len(caller.waits) :
        /\ caller.waits[i].kind = "returned"
        /\ caller.waits[i].result = caller.waits[1].result

----------------------------------------------------------------------------
(* C2 *)

\* C2: if kill(timeout) is called while the child is running, then the child's
\* stdin is closed and the task finishes, so that wait() returns, whatever the
\* child does: without a kill attempt the status wait() returns is the child's
\* own, and once the timeout has elapsed a kill is attempted before the task
\* finishes.
C2_KillLeadsToReturn ==
    /\ [](KilledWhileRunning => <>(child.stdin = "closed" /\ TaskFinished))
    /\ [](KilledWhileRunning /\ task.pc = "done" /\ "kill" \notin Range(events)
            /\ Unwrap(task.output).ok
          => /\ Unwrap(task.output).v \in OwnStatuses
             /\ task.output = Some(Ok(Unwrap(child.status))))
    /\ [](KilledWhileRunning /\ task.pc = "done" /\ "elapsed" \in Range(events)
          => "kill" \in Range(events))

\* a kill(timeout) on a running child whose timeout elapsed: the child was
\* killed and the task returned the status of the killed child
C2_Witness ==
    /\ KilledWhileRunning
    /\ task.pc = "done"
    /\ child.stdin = "closed"
    /\ "elapsed" \in Range(events)
    /\ task.output = Some(Ok(Killed))

----------------------------------------------------------------------------
(* C3 *)

\* C3: in the shutdown path the close of the child's stdin comes before every
\* kill attempt, and every kill attempt comes before the final wait, which is
\* the last thing the task does and whose result is the task's output.
C3_ShutdownOrder ==
    /\ \A k \in Indices(events, "kill") :
           \E c \in Indices(events, "close_stdin") : c < k
    /\ \A f \in Indices(events, "final_wait") :
           /\ \A k \in Indices(events, "kill") : k < f
           /\ \E c \in Indices(events, "close_stdin") : c < f
           /\ f = Len(events)
           /\ task.pc = "done"

\* the timeout elapsed, the child was killed and the final wait was done
C3_Witness == events = <<"close_stdin", "elapsed", "kill", "final_wait">>

----------------------------------------------------------------------------
(* C4 *)

\* C4: build() with CustomProxy::Shadowsocks and no proxy_port fails with an
\* error returned to the caller: it neither panics nor returns arguments.
C4_MissingPortIsAnError ==
    (/\ out # NotBuilt
     /\ IsSome(cmd.proxy_settings)
     /\ Unwrap(cmd.proxy_settings).variant = "Shadowsocks"
     /\ ~IsSome(cmd.proxy_port))
    => out.kind = "error"

----------------------------------------------------------------------------
(* C5 *)

\* C5: over any sequence of kill() calls exactly one value, that of the first
\* call, is passed to the channel; the task uses no other timeout; a later
\* call changes nothing; and stop_tx, once taken, stays taken.
C5_KillIdempotent ==
    /\ [](caller.kills # <<>> => chan.sent = <<caller.kills[1].timeout>>)
    /\ [](caller.kills = <<>> => chan.sent = <<>>)
    /\ [](IsSome(task.timeout) =>
            caller.kills # <<>> /\ task.timeout = Some(caller.kills[1].timeout))
    /\ [][(caller.kills # <<>> /\ caller'.kills # caller.kills)
            => UNCHANGED <<handle, chan, task, child, events>>]_vars
    /\ [][(handle.state = "live" /\ handle.stop_tx = "None")
            => handle'.stop_tx = "None"]_vars

\* two kill() calls with different timeouts; the task waited with the first
C5_Witness ==
    /\ Len(caller.kills) = 2
    /\ caller.kills[1].timeout # caller.kills[2].timeout
    /\ task.timeout = Some(caller.kills[1].timeout)
    /\ chan.sent = <<caller.kills[1].timeout>>

----------------------------------------------------------------------------
(* C6 *)

\* C6: when the kill attempted after the timeout elapsed fails, the task still
\* does the final wait, and what wait() returns is that wait's result, so the
\* task does not finish while the child is running.
C6_KillFailureNotFatal ==
    ("elapsed" \in Range(events) /\ "kill_failed" \in Range(events) /\ task.pc = "done")
    => /\ events[Len(events)] = "final_wait"
       /\ child.state = "exited"
       /\ Unwrap(task.output).v # "kill"

----------------------------------------------------------------------------
(* Expected tokens, written out for the values of the model *)

ProtoToken(protocol) == IF protocol = "Udp" THEN "udp" ELSE "tcp-client"

IpText(ip) == CASE ip = <<127, 0, 0, 1>> -> "127.0.0.1"
                [] ip = <<10, 0, 0, 1>> -> "10.0.0.1"
                [] ip = <<192, 168, 1, 5>> -> "192.168.1.5"
                [] ip = <<185, 65, 135, 1>> -> "185.65.135.1"

PortText(port) == CASE port = 0 -> "0"
                    [] port = 443 -> "443"
                    [] port = 1080 -> "1080"
                    [] port = 1081 -> "1081"
                    [] port = 3333 -> "3333"
                    [] port = 54321 -> "54321"

Built == out.kind = "command"

----------------------------------------------------------------------------
(* C7 *)

\* C7 as stated: with a remote set, the arguments hold the protocol token
\* followed immediately by the IP address token and then the port token.
C7_ProtoThenAddress ==
    (Built /\ IsSome(cmd.remote)) =>
        LET endpoint == Unwrap(cmd.remote)
        IN  Occurs(out.args, <<ProtoToken(endpoint.protocol),
                               IpText(endpoint.address.ip),
                               PortText(endpoint.address.port)>>)

\* C7 as amended: with a remote set, the arguments hold, contiguous and each a
\* token of its own, "--proto", the protocol token ("udp" or "tcp-client"),
\* "--remote", the IP address and the decimal port: "--remote" stands between
\* the protocol token and the address.
C7_RemoteTokens ==
    (Built /\ IsSome(cmd.remote)) =>
        LET endpoint == Unwrap(cmd.remote)
        IN  Occurs(out.args, <<"--proto", ProtoToken(endpoint.protocol), "--remote",
                               IpText(endpoint.address.ip),
                               PortText(endpoint.address.port)>>)

\* a TCP remote was set and the command built
C7_Witness ==
    /\ Built
    /\ IsSome(cmd.remote)
    /\ Unwrap(cmd.remote).protocol = "Tcp"
    /\ Unwrap(cmd.remote).address.port = 443

----------------------------------------------------------------------------
(* C8 *)

\* the flag that starts each section after the base flags, in the fixed order
SectionFlags ==
    <<"--config", "--proto", "--auth-user-pass", "--ca", "--crl-verify", "--plugin",
      "--log", "--mssfix", "--pull-filter", "--dev-node", "--tls-ciphersuites",
      "--socks-proxy", "--mark">>

\* the number of tokens section k is to contribute for command c on target p
SectionLen(p, c, k) ==
    CASE k = 1 -> IF IsSome(c.config) THEN 2 ELSE 0
      [] k = 2 -> IF IsSome(c.remote) THEN 5 ELSE 0
      [] k = 3 -> IF IsSome(c.user_pass_path) THEN 2 ELSE 0
      [] k = 4 -> IF IsSome(c.ca) THEN 2 ELSE 0
      [] k = 5 -> IF IsSome(c.crl) THEN 2 ELSE 0
      [] k = 6 -> IF IsSome(c.plugin) THEN 2 + Len(Unwrap(c.plugin).args) ELSE 0
      [] k = 7 -> IF IsSome(c.log) THEN 2 ELSE 0
      [] k = 8 -> IF IsSome(c.tunnel_options.mssfix) THEN 2 ELSE 0
      [] k = 9 -> IF c.enable_ipv6 THEN 0 ELSE 6
      [] k = 10 -> IF IsSome(c.tunnel_alias) THEN 2 ELSE 0
      [] k = 11 -> 2
      [] k = 12 -> IF ~IsSome(c.proxy_settings) THEN 0
                   ELSE IF /\ Unwrap(c.proxy_settings).variant = "Socks5Remote"
                           /\ IsSome(Unwrap(c.proxy_settings).auth)
                           /\ IsSome(c.proxy_auth_path)
                        THEN 8 ELSE 7
      [] k = 13 -> IF p = "linux" /\ IsSome(c.fwmark) THEN 2 ELSE 0

RECURSIVE SectionsLen(_, _, _)
SectionsLen(p, c, k) == IF k = 0 THEN 0 ELSE SectionsLen(p, c, k - 1) + SectionLen(p, c, k)

\* the index at which section k is to start
SectionStart(p, c, k) == Len(base_arguments(p)) + SectionsLen(p, c, k - 1) + 1

\* C8: the arguments are the base flags followed by the sections in the fixed
\* order, each section starting with its own flag; an unset field contributes
\* no token, and a section's flag occurs nowhere outside its section.
C8_SectionOrder ==
    Built =>
        LET base == base_arguments(platform)
            n == Len(SectionFlags)
        IN  /\ SubSeq(out.args, 1, Len(base)) = base
            /\ Len(out.args) = Len(base) + SectionsLen(platform, cmd, n)
            /\ \A k \in 1..n :
                 LET first == SectionStart(platform, cmd, k)
                     len == SectionLen(platform, cmd, k)
                 IN  /\ len > 0 => out.args[first] = SectionFlags[k]
                     /\ \A i \in Indices(out.args, SectionFlags[k]) :
                            first <= i /\ i < first + len

\* three optional sections at once, the first and the last one among them
C8_Witness ==
    /\ Built
    /\ platform = "linux"
    /\ IsSome(cmd.config)
    /\ IsSome(cmd.plugin)
    /\ IsSome(cmd.fwmark)

----------------------------------------------------------------------------
(* C9 *)

\* C9: with a plugin set, the arguments hold "--plugin", the plugin path and
\* then every plugin argument in its order, contiguous, each argument one
\* token equal to the string given, and the plugin adds no other token.
C9_PluginTokens ==
    (Built /\ IsSome(cmd.plugin)) =>
        LET path == Unwrap(cmd.plugin).path
            args == Unwrap(cmd.plugin).args
            without == build(platform, [cmd EXCEPT !.plugin = None]).args
        IN  /\ Occurs(out.args, <<"--plugin", path>> \o args)
            /\ Len(out.args) = Len(without) + 2 + Len(args)
            /\ Cardinality(Indices(out.args, "--plugin")) = 1

\* a plugin with two arguments, one of them holding a space
C9_Witness ==
    /\ Built
    /\ IsSome(cmd.plugin)
    /\ Unwrap(cmd.plugin).args = <<"c de", "123">>

----------------------------------------------------------------------------
(* C10 *)

IPv6Block == <<"--pull-filter", "ignore", "route-ipv6",
               "--pull-filter", "ignore", "ifconfig-ipv6">>

\* C10: the arguments with IPv6 disabled are those of the same command with
\* IPv6 enabled with the six tokens of IPv6Block inserted as one block; with
\* IPv6 enabled there is no "--pull-filter".
C10_IPv6Filters ==
    Built =>
        LET other == build(platform, [cmd EXCEPT !.enable_ipv6 = ~@]).args
            on == IF cmd.enable_ipv6 THEN out.args ELSE other
            off == IF cmd.enable_ipv6 THEN other ELSE out.args
        IN  /\ \E k \in 0..Len(on) : off = Inserted(on, IPv6Block, k)
            /\ "--pull-filter" \notin Range(on)
            /\ Cardinality(Indices(off, "--pull-filter")) = 2

\* a command built with IPv6 disabled
C10_Witness ==
    /\ Built
    /\ ~cmd.enable_ipv6
    /\ IsSome(cmd.remote)

----------------------------------------------------------------------------
(* C11 *)

ProxyIs(variant) ==
    IsSome(cmd.proxy_settings) /\ Unwrap(cmd.proxy_settings).variant = variant

\* C11: for a Socks5Remote proxy that carries credentials, build() does not
\* fail; without a proxy_auth path the proxy section is "--socks-proxy", the
\* proxy's IP and port and then the "--route" directive for the proxy's IP;
\* with a path, the path is the one token between the port and "--route".
C11_RemoteProxyAuthFile ==
    (out # NotBuilt /\ ProxyIs("Socks5Remote") /\ IsSome(Unwrap(cmd.proxy_settings).auth))
    => LET proxy == Unwrap(cmd.proxy_settings)
           ip == IpText(proxy.endpoint.ip)
       IN  /\ Built
           /\ Occurs(out.args,
                     <<"--socks-proxy", ip, PortText(proxy.endpoint.port)>>
                     \o cmd.proxy_auth_path
                     \o <<"--route", ip, "255.255.255.255", "net_gateway">>)

----------------------------------------------------------------------------
(* C12 *)

\* C12: for a Socks5Local proxy with local port p and remote address r the
\* arguments hold "--socks-proxy 127.0.0.1 p" and, later, "--route r
\* 255.255.255.255 net_gateway", each contiguous; without a proxy there is no
\* "--socks-proxy" and no "--route" other than those of the base flags.
C12_LocalProxyTokens ==
    /\ (Built /\ ProxyIs("Socks5Local")) =>
         LET proxy == Unwrap(cmd.proxy_settings)
         IN  \E i \in Indices(out.args, "--socks-proxy") :
                /\ OccursAt(out.args, <<"--socks-proxy", "127.0.0.1",
                                        PortText(proxy.local_port)>>, i)
                /\ \E j \in Indices(out.args, "--route") :
                      /\ i + 3 <= j
                      /\ OccursAt(out.args, <<"--route",
                                              IpText(proxy.remote_endpoint.address.ip),
                                              "255.255.255.255", "net_gateway">>, j)
    /\ (Built /\ ~IsSome(cmd.proxy_settings)) =>
         /\ "--socks-proxy" \notin Range(out.args)
         /\ "net_gateway" \notin Range(out.args)
         /\ Indices(out.args, "--route") = Indices(base_arguments(platform), "--route")

\* a local forwarder on port 1080 for 10.0.0.1, with another remote set
C12_Witness ==
    /\ Built
    /\ ProxyIs("Socks5Local")
    /\ Unwrap(cmd.proxy_settings).local_port = 1080
    /\ IsSome(cmd.remote)
    /\ Unwrap(cmd.remote).address.ip # <<10, 0, 0, 1>>

----------------------------------------------------------------------------
(* C19 *)

ProxyPortOptions == {None} \cup {Some(port) : port \in ProxyPorts}

\* C19: proxy_port matters for Shadowsocks alone. For Socks5Local the token
\* after "--socks-proxy 127.0.0.1" is the proxy's own local port; for
\* Socks5Local, Socks5Remote and no proxy the arguments are the same for every
\* proxy_port, set or not; for Shadowsocks the token after "--socks-proxy
\* 127.0.0.1" is proxy_port and the "--route" address is the Shadowsocks
\* endpoint.
C19_ProxyPortFrame ==
    Built =>
      /\ ~ProxyIs("Shadowsocks") =>
           \A pp \in ProxyPortOptions :
               build(platform, [cmd EXCEPT !.proxy_port = pp]) = out
      /\ ProxyIs("Socks5Local") =>
           Occurs(out.args, <<"--socks-proxy", "127.0.0.1",
                              PortText(Unwrap(cmd.proxy_settings).local_port)>>)
      /\ ProxyIs("Shadowsocks") =>
           Occurs(out.args, <<"--socks-proxy", "127.0.0.1",
                              PortText(Unwrap(cmd.proxy_port)),
                              "--route", IpText(Unwrap(cmd.proxy_settings).endpoint.ip),
                              "255.255.255.255", "net_gateway">>)

\* a local forwarder built with a proxy_port registered
C19_Witness ==
    /\ Built
    /\ ProxyIs("Socks5Local")
    /\ cmd.proxy_port = Some(54321)

----------------------------------------------------------------------------
(* C13 *)

SpawnFailed == caller.spawn = Some(Err("spawn"))

\* C13: when spawn() fails, new() returns the error and nothing else: there is
\* no handle, no channel, no task and no child, and nothing happens afterwards
\* (the spawn is not tried again).
C13_SpawnFailure ==
    /\ [](SpawnFailed =>
            /\ handle.state = "none"
            /\ chan.tx = "none" /\ chan.rx = "none"
            /\ task.pc = "none" /\ task.stage = "none"
            /\ child.state = "none"
            /\ events = <<>>)
    /\ [][SpawnFailed => UNCHANGED procVars]_vars

\* new() returned the error of spawn()
C13_Witness == SpawnFailed /\ handle.state = "none"

----------------------------------------------------------------------------
(* C14 *)

IsPrefix(s, t) == Len(s) <= Len(t) /\ SubSeq(t, 1, Len(s)) = s

\* C14: when stop_tx is dropped with nothing sent, the task closes stdin and
\* attempts the kill at once, with no bounded wait in between, and then does
\* the final wait; a failed kill is ignored and the final wait is still done.
C14_DroppedSenderKills ==
    task.signal = "Canceled" =>
        /\ handle.state = "dropped"
        /\ chan.sent = <<>>
        /\ task.timeout = None /\ task.elapsed = 0
        /\ \/ IsPrefix(events, <<"close_stdin", "kill", "final_wait">>)
           \/ IsPrefix(events, <<"close_stdin", "kill", "kill_failed", "final_wait">>)
        /\ task.pc = "kill" <=> events = <<"close_stdin">>
        /\ task.pc = "done" <=> events[Len(events)] = "final_wait"

\* the handle was dropped, the kill failed and the final wait was still done
C14_Witness ==
    /\ task.signal = "Canceled"
    /\ events = <<"close_stdin", "kill", "kill_failed", "final_wait">>
    /\ task.pc = "done"

----------------------------------------------------------------------------
(* C15 *)

\* C15 as stated: when the child exits by itself before a timeout is sent and
\* before stop_tx is dropped, the task completes through the natural-exit
\* branch and no kill is ever attempted.
C15_ExitFirstNaturalBranch ==
    (child.unsignalled /\ task.pc = "done") => events = <<"exited">>

\* C15 as amended: when the child exits by itself before a timeout is sent and
\* before stop_tx is dropped, the task may still take the stop_rx branch if
\* the signal comes before the task has seen the exit; but wait() returns the
\* child's own status (or the error of waiting for it), a kill is attempted
\* only if stop_tx was dropped, the natural-exit branch attempts no kill and
\* closes nothing, and once the task has completed a kill() changes neither
\* its result nor the child.
C15_ExitFirst ==
    /\ [](child.unsignalled =>
            /\ Unwrap(child.status) \in OwnStatuses
            /\ task.pc = "done" =>
                 Unwrap(task.output) \in {Ok(Unwrap(child.status)), Err("wait")}
            /\ "kill" \in Range(events) => task.signal = "Canceled"
            /\ "elapsed" \notin Range(events))
    /\ []((events # <<>> /\ events[1] = "exited") =>
            /\ events = <<"exited">>
            /\ task.pc = "done"
            /\ task.signal = "none")
    /\ [][(task.pc = "done" /\ caller'.kills # caller.kills) =>
            /\ task'.output = task.output
            /\ events' = events
            /\ child' = child]_vars

\* the child exited first, the task took the natural-exit branch, and kill()
\* was called twice afterwards
C15_Witness ==
    /\ child.unsignalled
    /\ events = <<"exited">>
    /\ task.output = Some(Ok("exit(1)"))
    /\ Len(caller.kills) = 2
    /\ ~caller.kills[1].running
    /\ chan.data = None

----------------------------------------------------------------------------
(* C16 *)

\* C16: after a timeout was received, a kill is attempted only if the timeout
\* elapsed before the child exited, none if the child exited within it; in
\* both cases the task then does the final wait, whose result is the task's.
C16_KillOnlyAfterTimeout ==
    (task.signal = "Ok" /\ task.pc = "done") =>
        /\ "kill" \in Range(events) <=> "elapsed" \in Range(events)
        /\ "waited" \in Range(events) => "kill" \notin Range(events)
        /\ events[Len(events)] = "final_wait"

----------------------------------------------------------------------------
(* C17 *)

Count(s, e) == Cardinality(Indices(s, e))

\* C17: whatever the interleaving of kill() calls, the drop of the handle and
\* the exit of the child, the task closes stdin in the shutdown path at most
\* once and attempts a kill at most once.
C17_AtMostOnce ==
    /\ Count(events, "close_stdin") <= 1
    /\ Count(events, "kill") <= 1

\* two kill() calls, then the handle dropped: one close and one kill attempt
C17_Witness ==
    /\ Len(caller.kills) = 2
    /\ handle.state = "dropped"
    /\ task.pc = "done"
    /\ Count(events, "close_stdin") = 1
    /\ Count(events, "kill") = 1

----------------------------------------------------------------------------
(* C18 *)

\* neither was kill() called nor was stop_tx dropped
Unsignalled == chan.tx = "held"

\* C18: a kill attempt or a close of stdin in the shutdown path has happened
\* only if kill() was called or stop_tx was dropped before; while neither has
\* happened the task is parked at its select! or has completed through the
\* exit of the child, and wait() has not returned unless the child has exited.
C18_NoUnpromptedShutdown ==
    /\ ("kill" \in Range(events) \/ "close_stdin" \in Range(events)) =>
           (caller.kills # <<>> \/ handle.state = "dropped")
    /\ Unsignalled =>
           /\ caller.kills = <<>> /\ handle.state = "live"
           /\ task.pc \in {"select", "done"}
           /\ task.pc = "select" => events = <<>> /\ child.stdin = "open"
           /\ task.pc = "done" => events = <<"exited">> /\ child.state = "exited"
           /\ caller.waits # <<>> => child.state = "exited"

\* no kill() and no drop: the child exited and wait() returned
C18_Witness ==
    /\ Unsignalled
    /\ task.pc = "done"
    /\ caller.waits # <<>>

====
